---- MODULE Spec2Model ----
(***************************************************************************)
(* Model of the RIS analysis script src/app1.py: one Streamlit script run  *)
(* over three uploaded tables (order data, FC reference, product master).  *)
(* Cell values are sequences of one-character strings so that the text     *)
(* helpers (strip, upper, lower, punctuation removal) act on characters.   *)
(***************************************************************************)
EXTENDS Integers, Sequences, FiniteSets, TLC

VARIABLES pc, original_file, fc_file, pm_file, Working, FC, PM, canon_map,
          detailed_pivot_with_totals, inventory_pivot_with_totals,
          inventory_brand_summary, brand_summary, shown, errors

vars == <<pc, original_file, fc_file, pm_file, Working, FC, PM, canon_map,
          detailed_pivot_with_totals, inventory_pivot_with_totals,
          inventory_brand_summary, brand_summary, shown, errors>>

(***************************************************************************)
(* Characters and cell values                                              *)
(***************************************************************************)
NBSP == "nbsp"

\* a missing cell (pandas NaN); a one-element sequence no text can equal
NaN == <<"<NaN>">>

LowerLetters == <<"a","b","c","d","e","f","g","h","i","j","k","l","m",
                  "n","o","p","q","r","s","t","u","v","w","x","y","z">>

UpperLetters == <<"A","B","C","D","E","F","G","H","I","J","K","L","M",
                  "N","O","P","Q","R","S","T","U","V","W","X","Y","Z">>

Digits == {"0","1","2","3","4","5","6","7","8","9"}

isna(x) == x = NaN

\* str(x): a missing value prints as the text nan
str(x) == IF isna(x) THEN <<"n","a","n">> ELSE x

\* str.isspace for the characters of the model (the NBSP is whitespace)
isspace(c) == c \in {" ", NBSP}

upperChar(c) ==
    IF \E i \in 1..26 : LowerLetters[i] = c
    THEN UpperLetters[CHOOSE i \in 1..26 : LowerLetters[i] = c]
    ELSE c

lowerChar(c) ==
    IF \E i \in 1..26 : UpperLetters[i] = c
    THEN LowerLetters[CHOOSE i \in 1..26 : UpperLetters[i] = c]
    ELSE c

upper(s) == [i \in 1..Len(s) |-> upperChar(s[i])]

lower(s) == [i \in 1..Len(s) |-> lowerChar(s[i])]

RECURSIVE lstrip(_)
lstrip(s) == IF s # <<>> /\ isspace(Head(s)) THEN lstrip(Tail(s)) ELSE s

RECURSIVE rstrip(_)
rstrip(s) ==
    IF s # <<>> /\ isspace(s[Len(s)]) THEN rstrip(SubSeq(s, 1, Len(s) - 1)) ELSE s

\* str.strip(): removes leading and trailing whitespace
strip(s) == rstrip(lstrip(s))

\* s.replace(a, b) for single characters, b a (possibly empty) sequence
RECURSIVE replace(_, _, _)
replace(s, a, b) ==
    IF s = <<>> THEN <<>>
    ELSE (IF Head(s) = a THEN b ELSE <<Head(s)>>) \o replace(Tail(s), a, b)

\* re.sub(r"[^\w\s]", "", s)
isword(c) == c \in Digits \/ c = "_" \/ \E i \in 1..26 : c \in {LowerLetters[i], UpperLetters[i]}

remove_punct(s) == SelectSeq(s, LAMBDA c : isword(c) \/ isspace(c))

\* re.sub(r"\s+", " ", s)
RECURSIVE collapse_ws(_)
collapse_ws(s) ==
    IF s = <<>> THEN <<>>
    ELSE IF isspace(Head(s))
         THEN <<" ">> \o collapse_ws(lstrip(Tail(s)))
         ELSE <<Head(s)>> \o collapse_ws(Tail(s))

\* the key upper-cased without being stripped
normalize_unstripped(x) ==
    LET k == upper(str(x)) IN IF k = <<>> THEN NaN ELSE k

\* normalize(s), per cell: astype(str), strip, upper, "" -> NA
normalize(x) ==
    LET k == upper(strip(str(x))) IN IF k = <<>> THEN NaN ELSE k

normalize_text(x) ==
    IF isna(x) THEN <<>>
    ELSE LET s1 == replace(x, NBSP, <<" ">>)
             s2 == strip(lower(s1))
             s3 == remove_punct(s2)
             s4 == strip(collapse_ws(s3))
         IN replace(s4, " ", <<>>)

\* the normalized text returned when the map has no entry for it
safe_correct_normalized(raw, cmap) ==
    LET norm == normalize_text(raw) IN
    IF norm \in DOMAIN cmap THEN cmap[norm] ELSE norm

\* canon_map is a function from normalized text to canonical text
safe_correct(raw, cmap) ==
    LET norm == normalize_text(raw) IN
    IF norm \in DOMAIN cmap THEN cmap[norm] ELSE raw

(***************************************************************************)
(* Tables: a record [cols, rows]; a row is a function from column name to  *)
(* cell value.                                                             *)
(***************************************************************************)
Table(cols, rows) == [cols |-> cols, rows |-> rows]

Restrict(row, cols) == [c \in cols |-> row[c]]

RECURSIVE Concat(_)
Concat(ss) == IF ss = <<>> THEN <<>> ELSE Head(ss) \o Concat(Tail(ss))

\* DataFrame.merge(how="left"): every left row once per matching right row
\* (missing keys match each other), or once with missing values.
merge_left(left, right, lkey, rkey, addcols) ==
    Concat([i \in 1..Len(left) |->
        LET l == left[i]
            m == SelectSeq(right, LAMBDA r : r[rkey] = l[lkey])
        IN IF m = <<>>
           THEN <<l @@ [c \in addcols |-> NaN]>>
           ELSE [j \in 1..Len(m) |-> l @@ [c \in addcols |-> m[j][c]]]])

(***************************************************************************)
(* Bounds and input domains                                                *)
(***************************************************************************)
MaxOrders == 2

MaxQty == 1

DED3 == <<"D","E","D","3">>
DED5 == <<"D","E","D","5">>
ISK3 == <<"I","S","K","3">>
BLR4 == <<"B","L","R","4">>
DEL4 == <<"D","E","L","4">>
DEL5 == <<"D","E","L","5">>
DED4 == <<"D","E","D","4">>
BOM5 == <<"B","O","M","5">>
BOM7 == <<"B","O","M","7">>
PNQ3 == <<"P","N","Q","3">>
BLR7 == <<"B","L","R","7">>
BLR8 == <<"B","L","R","8">>
XYZ9 == <<"X","Y","Z","9">>

Delhi == <<"D","e","l","h","i">>
Haryana == <<"H","a","r","y","a","n","a">>
North == <<"N">>

LOCAL_MAP ==
    (DED3 :> {DEL4, DEL5, DED4}) @@ (DED5 :> {DEL4, DEL5, DED4}) @@
    (ISK3 :> {BOM5, BOM7, PNQ3}) @@ (BLR4 :> {BLR7, BLR8})

SkuA == <<"s","1">>
SkuB == <<"s","2">>
SkuNone == <<"s","9">>
BrandA == <<"A">>
BrandB == <<"B">>

OrderCols == {"order-id", "fulfillment-center-id", "ship-state",
              "quantity-shipped", "sku", "Inferred_Receive_Centre"}

OrderRow(fc, ship, qty, sku, irc) ==
    [c \in OrderCols |->
        CASE c = "order-id" -> 0
          [] c = "fulfillment-center-id" -> fc
          [] c = "ship-state" -> ship
          [] c = "quantity-shipped" -> qty
          [] c = "sku" -> sku
          [] c = "Inferred_Receive_Centre" -> irc]

\* the order-id column numbers the lines of the uploaded file
Numbered(rows) ==
    [i \in 1..Len(rows) |-> [rows[i] EXCEPT !["order-id"] = i]]

FcRow(code, state, cluster) ==
    [c \in {"FC", "State", "Cluster"} |->
        CASE c = "FC" -> code [] c = "State" -> state [] c = "Cluster" -> cluster]

\* a product master row: the key is the third cell, the brand the seventh
PmRow(sku, brand) == <<NaN, NaN, sku, NaN, NaN, NaN, brand>>

FcDefault ==
    <<FcRow(DED3, Delhi, North), FcRow(DEL4, Delhi, North), FcRow(BOM5, Haryana, North)>>

PmDefault == <<PmRow(SkuA, BrandA), PmRow(SkuB, BrandB)>>

FcCols == {"FC", "State", "Cluster"}

\* the same centre listed twice, in two states: the left join fans out
FcDuplicate ==
    <<FcRow(DED3, Delhi, North), FcRow(DEL4, Delhi, North),
      FcRow(<<"d","e","l","4">>, Haryana, North), FcRow(BOM5, Haryana, North)>>

\* a centre whose State cell is empty, and a state spelt with other casing
FcDirty ==
    <<FcRow(DED3, <<"D","E","L","H","I"," ">>, North), FcRow(DEL4, NaN, North),
      FcRow(BOM5, Haryana, NaN)>>

FcTables == {FcDefault, FcDuplicate, FcDirty}

delhi_padded == <<" ","d","e","l","h","i"," ">>
Delhi_spaced == <<" ","D","e","l"," ","h","i"," ">>
ded3 == <<"d","e","d","3">>
del4_padded == <<" ","d","e","l","4",NBSP>>

\* returned units are reported as negative quantities
Quantities == (0..MaxQty) \cup {0 - 1}

SmallRows ==
    {OrderRow(fc, ship, 1, sku, DED3) :
        fc \in {DEL4, BOM5}, ship \in {Delhi, Haryana}, sku \in {SkuA, SkuB, SkuNone}}

QtyRows ==
    {OrderRow(fc, Delhi, q, sku, DED3) :
        fc \in {DEL4, BOM5}, q \in Quantities, sku \in {SkuA, SkuB}}

RichRows ==
    {OrderRow(fc, ship, 1, SkuA, irc) :
        fc \in {ded3, del4_padded, DEL4, BOM5, XYZ9, NaN},
        ship \in {Delhi, delhi_padded, Delhi_spaced, Haryana, NaN},
        irc \in {DED3, ded3, ISK3, XYZ9, NaN}}

AnchorRows ==
    {OrderRow(DEL4, Delhi, 1, SkuA, DED3), OrderRow(BOM5, Delhi, 1, SkuB, DED3)}

SeqsUpTo(S, n) == UNION {[1..k -> S] : k \in 1..n}

\* order files with the full set of columns
AggOrders == {Table(OrderCols, Numbered(rows)) : rows \in SeqsUpTo(SmallRows, MaxOrders)}

QtyOrders == {Table(OrderCols, Numbered(rows)) : rows \in [1..2 -> QtyRows]}

RichOrders ==
    {Table(OrderCols, Numbered(<<r>>)) : r \in RichRows} \cup
    {Table(OrderCols, Numbered(<<r, a>>)) : r \in RichRows, a \in AnchorRows}

\* order files with other sets of columns, over two sample lines
SampleRow(fc, ship, sku, sso, brand) ==
    OrderRow(fc, ship, 1, sku, DED3) @@
    [c \in {"ship-state_original", "Brand"} |->
        IF c = "Brand" THEN brand ELSE sso]

SampleRows ==
    <<SampleRow(DEL4, Haryana, SkuA, Delhi_spaced, BrandB),
      SampleRow(BOM5, Delhi, SkuNone, Delhi, BrandA),
      SampleRow(DEL4, Delhi, SkuB, Haryana, BrandA)>>

Schemas ==
    {OrderCols} \cup {OrderCols \ {c} : c \in OrderCols \ {"order-id"}} \cup
    {OrderCols \cup {"ship-state_original"},
     (OrderCols \ {"ship-state"}) \cup {"ship-state_original"},
     (OrderCols \ {"sku"}) \cup {"Brand"},
     OrderCols \cup {"Brand"},
     OrderCols \ {"ship-state", "quantity-shipped"},
     OrderCols \ {"fulfillment-center-id", "ship-state"}}

SchemaOrders ==
    {Table(cols, Numbered([i \in 1..Len(SampleRows) |-> Restrict(SampleRows[i], cols)])) :
        cols \in Schemas}

\* a centre code with a space inside, and order lines that write it with
\* other casing, padding, or a non-breaking space
DE_L4 == <<"D","E"," ","L","4">>

FcSpaced == <<FcRow(DE_L4, Delhi, North), FcRow(BOM5, Haryana, North)>>

KeyVariants ==
    {DE_L4, <<"d","e"," ","l","4">>, <<" ","D","e"," ","L","4",NBSP>>,
     <<"D","E",NBSP,"L","4">>, <<NBSP,"d","e",NBSP,"l","4">>, <<"D","E","L","4">>}

KeyOrders ==
    {Table(OrderCols, Numbered(<<OrderRow(fc, Delhi, 1, SkuA, DED3), a>>)) :
        fc \in KeyVariants, a \in AnchorRows}

\* FC files whose State cells spell one state in several ways
Goa == <<"G","o","a">>
GOA_padded == <<" ","G","O","A",NBSP>>
g_o_a == <<"g","-","o"," ","a">>
Blank == <<" ">>

StateSpellings == {Goa, GOA_padded, g_o_a, Blank, NaN, <<"G","o">>}

StateTables ==
    {<<FcRow(DEL4, s, North)>> : s \in StateSpellings} \cup
    {<<FcRow(DEL4, s, North), FcRow(BOM5, t, North)>> : s \in StateSpellings, t \in StateSpellings}

RawStates ==
    {Goa, g_o_a, <<NBSP,"g","O","a",".">>, <<"G","o"," ","a"," ">>, <<"G","o","."," ","x">>, NaN}

StateOrders ==
    {Table(OrderCols, Numbered(<<OrderRow(DEL4, ship, 1, SkuA, DED3)>>)) : ship \in RawStates}

FcFile(cols, rows) == Table(cols, [i \in 1..Len(rows) |-> Restrict(rows[i], cols)])

\* a product master file of the given number of columns
PmFile(width, rows) ==
    [width |-> width, rows |-> [i \in 1..Len(rows) |-> SubSeq(rows[i], 1, width)]]

PmWidths == {6, 7}

Input(o, f, p) == [original |-> o, fc |-> f, pm |-> p]

Inputs ==
    {Input(o, FcFile(FcCols, FcDefault), PmFile(7, PmDefault)) : o \in AggOrders \cup QtyOrders}
    \cup
    {Input(o, FcFile(FcCols, t), PmFile(7, PmDefault)) : o \in RichOrders, t \in FcTables}
    \cup
    {Input(o, FcFile(FcCols, FcSpaced), PmFile(7, PmDefault)) : o \in KeyOrders}
    \cup
    {Input(o, FcFile(FcCols, t), PmFile(7, PmDefault)) : o \in StateOrders, t \in StateTables}
    \cup
    {Input(o, FcFile(cols, FcDefault), PmFile(w, PmDefault)) :
        o \in SchemaOrders, cols \in SUBSET FcCols, w \in PmWidths}

(***************************************************************************)
(* The script: files uploaded and loaded (lines 41-58), then one run per   *)
(* press of the Process button.                                            *)
(***************************************************************************)
NoTable == [cols |-> {}, rows |-> {}]

Init ==
    /\ \E in \in Inputs :
          /\ original_file = in.original
          /\ fc_file = in.fc
          /\ pm_file = in.pm
    /\ Working = original_file
    /\ FC = fc_file
    /\ PM = pm_file
    /\ pc = "ready"
    /\ canon_map = <<>>
    /\ detailed_pivot_with_totals = NoTable
    /\ inventory_pivot_with_totals = NoTable
    /\ inventory_brand_summary = NoTable
    /\ brand_summary = NoTable
    /\ shown = {}
    /\ errors = <<>>

files == <<original_file, fc_file, pm_file>>
reports == <<detailed_pivot_with_totals, inventory_pivot_with_totals,
             inventory_brand_summary, brand_summary>>

\* st.error + st.stop(): the run halts with a validation message
Stop(table, missing) ==
    /\ errors' = Append(errors, [kind |-> "validation", table |-> table, names |-> missing])
    /\ pc' = "stopped"

\* the exception is reported and the script goes on to the display code
Raise_and_continue(exc, what) ==
    /\ errors' = Append(errors, [kind |-> exc, table |-> "", names |-> what])
    /\ pc' = "tab1"

\* an exception reaches the handler of lines 490-492
Raise(exc, what) ==
    /\ errors' = Append(errors, [kind |-> exc, table |-> "", names |-> what])
    /\ pc' = "error"

\* the Process button is pressed
Process ==
    /\ pc = "ready"
    /\ pc' = "validate"
    /\ UNCHANGED <<files, Working, FC, PM, canon_map, reports, shown, errors>>

required_cols == {"FC", "State", "Cluster"}

key_col_name == "fulfillment-center-id"

Validate ==
    /\ pc = "validate"
    /\ IF key_col_name \notin Working.cols
       THEN Stop("Working", {key_col_name})
       ELSE LET missing == {c \in required_cols : c \notin FC.cols} IN
            IF missing # {}
            THEN Stop("FC", missing)
            ELSE pc' = "merge_fc" /\ UNCHANGED errors
    /\ UNCHANGED <<files, Working, FC, PM, canon_map, reports, shown>>

FC_lookup ==
    [i \in 1..Len(FC.rows) |->
        [c \in {"_join", "fulfillment_state", "cluster"} |->
            CASE c = "_join" -> normalize(FC.rows[i]["FC"])
              [] c = "fulfillment_state" -> FC.rows[i]["State"]
              [] c = "cluster" -> FC.rows[i]["Cluster"]]]

MergeFC ==
    /\ pc = "merge_fc"
    /\ LET keyed == [i \in 1..Len(Working.rows) |->
                        Working.rows[i] @@ [c \in {"_join"} |-> normalize(Working.rows[i][key_col_name])]]
           merged == merge_left(keyed, FC_lookup, "_join", "_join", {"fulfillment_state", "cluster"})
           cols == Working.cols \cup {"fulfillment_state", "cluster"}
       IN Working' = Table(cols, [i \in 1..Len(merged) |-> Restrict(merged[i], cols)])
    /\ pc' = "ship_state"
    /\ UNCHANGED <<files, FC, PM, canon_map, reports, shown, errors>>

\* lines 97-102: later states overwrite earlier ones with the same key
fc_states ==
    LET present == SelectSeq(FC.rows, LAMBDA r : ~isna(r["State"]))
    IN [i \in 1..Len(present) |-> strip(str(present[i]["State"]))]

canon_map_of(states) ==
    [k \in {normalize_text(states[i]) : i \in 1..Len(states)} \ {<<>>} |->
        LET last == CHOOSE i \in 1..Len(states) :
                        /\ normalize_text(states[i]) = k
                        /\ \A j \in 1..Len(states) : normalize_text(states[j]) = k => j <= i
        IN strip(states[last])]

\* lines 104-111 on one row: the backup, then the correction
backup_original(row, present) ==
    IF present THEN row
    ELSE row @@ [c \in {"ship-state_original"} |-> row["ship-state"]]

\* the correction written to the backup column as well
correct_state_both(row, cmap) ==
    [c \in DOMAIN row \cup {"ship-state"} |->
        IF c \in {"ship-state", "ship-state_original"}
        THEN safe_correct(row["ship-state_original"], cmap)
        ELSE row[c]]

correct_state(row, cmap) ==
    [c \in DOMAIN row \cup {"ship-state"} |->
        IF c = "ship-state" THEN safe_correct(row["ship-state_original"], cmap)
        ELSE row[c]]

NormalizeShipState ==
    /\ pc = "ship_state"
    /\ canon_map' = canon_map_of(fc_states)
    /\ IF "ship-state_original" \notin Working.cols /\ "ship-state" \notin Working.cols
       THEN Raise("KeyError", {"ship-state"}) /\ UNCHANGED Working
       ELSE /\ Working' =
                 Table(Working.cols \cup {"ship-state_original", "ship-state"},
                       [i \in 1..Len(Working.rows) |->
                           correct_state(
                               backup_original(Working.rows[i],
                                               "ship-state_original" \in Working.cols),
                               canon_map')])
            /\ pc' = "ris_status"
            /\ UNCHANGED errors
    /\ UNCHANGED <<files, FC, PM, reports, shown>>

\* str(x).strip().replace(" ", "")
compact(x) == replace(strip(str(x)), " ", <<>>)

\* the comparison made after folding the letter case of both sides
ris_status_casefold(row) ==
    IF lower(compact(row["ship-state_original"])) = lower(compact(row["fulfillment_state"]))
    THEN "RIS" ELSE "Non RIS"

ris_status(row) ==
    IF compact(row["ship-state_original"]) = compact(row["fulfillment_state"])
    THEN "RIS" ELSE "Non RIS"

RISStatus ==
    /\ pc = "ris_status"
    /\ Working' = Table(Working.cols \cup {"RIS Status"},
                        [i \in 1..Len(Working.rows) |->
                            [c \in DOMAIN Working.rows[i] \cup {"RIS Status"} |->
                                IF c = "RIS Status" THEN ris_status(Working.rows[i])
                                ELSE Working.rows[i][c]]])
    /\ pc' = "merge_pm"
    /\ UNCHANGED <<files, FC, PM, canon_map, reports, shown, errors>>

\* PM.iloc[:, 2:7] renamed: the third cell is the key, the seventh the brand
PM_lookup ==
    [i \in 1..Len(PM.rows) |->
        [c \in {"lookup_key", "Brand"} |->
            IF c = "lookup_key" THEN PM.rows[i][3] ELSE PM.rows[i][7]]]

lookup_key_col == "sku"

\* a left table that already has a Brand column gets Brand_x and Brand_y
merge_pm(W) ==
    IF "Brand" \in W.cols
    THEN LET renamed == [i \in 1..Len(W.rows) |->
                            [c \in (W.cols \ {"Brand"}) \cup {"Brand_x"} |->
                                IF c = "Brand_x" THEN W.rows[i]["Brand"] ELSE W.rows[i][c]]]
             lookup == [i \in 1..Len(PM_lookup) |->
                            [c \in {"lookup_key", "Brand_y"} |->
                                IF c = "Brand_y" THEN PM_lookup[i]["Brand"]
                                ELSE PM_lookup[i]["lookup_key"]]]
         IN Table((W.cols \ {"Brand"}) \cup {"Brand_x", "Brand_y"},
                  merge_left(renamed, lookup, lookup_key_col, "lookup_key", {"Brand_y"}))
    ELSE Table(W.cols \cup {"Brand"},
               merge_left(W.rows, PM_lookup, lookup_key_col, "lookup_key", {"Brand"}))

MergePM ==
    /\ pc = "merge_pm"
    /\ IF PM.width < 7
       THEN Raise("ValueError", {"Length mismatch"}) /\ UNCHANGED Working
       ELSE /\ Working' = IF lookup_key_col \in Working.cols THEN merge_pm(Working) ELSE Working
            /\ pc' = "detailed_pivot"
            /\ UNCHANGED errors
    /\ UNCHANGED <<files, FC, PM, canon_map, reports, shown>>

(***************************************************************************)
(* Report tables: [cols, rows]; rows is a set of records [kind, key, vals] *)
(* where kind tells which frame of the concatenation the row comes from    *)
(* (leaf, state, brand, grand), key is the index tuple and vals maps every *)
(* column of the table to the row's value.  Row order is not represented.  *)
(***************************************************************************)
RECURSIVE SumSeq(_, _)
SumSeq(rows, col) ==
    IF rows = <<>> THEN 0 ELSE Head(rows)[col] + SumSeq(Tail(rows), col)

RECURSIVE SumRows(_, _)
SumRows(rows, col) ==
    IF rows = {} THEN 0
    ELSE LET r == CHOOSE r \in rows : TRUE
         IN r.vals[col] + SumRows(rows \ {r}, col)

RECURSIVE SumCols(_, _)
SumCols(vals, cols) ==
    IF cols = {} THEN 0
    ELSE LET c == CHOOSE c \in cols : TRUE
         IN vals[c] + SumCols(vals, cols \ {c})

values_col == "quantity-shipped"

index_cols == <<"Brand", "fulfillment_state", "ship-state">>

\* groupby with dropna=True: a row with a missing key is in no group (the
\* label column is computed by the script and is never missing)
notna_keys(rows, keys) == SelectSeq(rows, LAMBDA r : \A k \in keys : ~isna(r[k]))

\* pd.pivot_table(values, index, columns, aggfunc="sum", fill_value=0)
pivot_table(rows, index, columns) ==
    LET data == notna_keys(rows, {index[i] : i \in 1..Len(index)})
        labels == {data[i][columns] : i \in 1..Len(data)}
        groups == {[j \in 1..Len(index) |-> data[i][index[j]]] : i \in 1..Len(data)}
        cell(g, l) ==
            SumSeq(SelectSeq(data, LAMBDA r :
                       /\ r[columns] = l
                       /\ \A j \in 1..Len(index) : r[index[j]] = g[j]), values_col)
    IN Table(labels, {[kind |-> "leaf", key |-> g, vals |-> [l \in labels |-> cell(g, l)]] : g \in groups})

\* a column missing from the table is added with zeros (lines 203-206)
ensure_columns(t, cols) ==
    Table(t.cols \cup cols,
          {[r EXCEPT !.vals = [c \in t.cols \cup cols |-> IF c \in t.cols THEN r.vals[c] ELSE 0]] :
              r \in t.rows})

\* t["Grand Total"] = t.sum(axis=1)
add_grand_total(t) ==
    Table(t.cols \cup {"Grand Total"},
          {[r EXCEPT !.vals = [c \in t.cols \cup {"Grand Total"} |->
                                  IF c = "Grand Total" THEN SumCols(r.vals, t.cols) ELSE r.vals[c]]] :
              r \in t.rows})

Total == <<" ","T","o","t","a","l">>

GrandTotalLabel == <<"G","r","a","n","d"," ","T","o","t","a","l">>

sum_vals(rows, cols) == [c \in cols |-> SumRows(rows, c)]

\* the brand totals taken after the state totals were appended to the frame
brand_totals_after_concat(t) ==
    {[kind |-> "brand", key |-> <<b, b \o Total, <<>>>>,
      vals |-> [c \in t.cols |-> 2 * SumRows({r \in t.rows : r.key[1] = b}, c)]] :
        b \in {r.key[1] : r \in t.rows}}

\* groupby(level=0).sum(), relabelled (brand, "<brand> Total", "")
brand_totals(t) ==
    {[kind |-> "brand", key |-> <<b, b \o Total, <<>>>>,
      vals |-> sum_vals({r \in t.rows : r.key[1] = b}, t.cols)] :
        b \in {r.key[1] : r \in t.rows}}

\* groupby(level=[0, 1]).sum(), relabelled (brand, "<state> Total", "")
state_totals(t) ==
    {[kind |-> "state", key |-> <<g[1], g[2] \o Total, <<>>>>,
      vals |-> sum_vals({r \in t.rows : r.key[1] = g[1] /\ r.key[2] = g[2]}, t.cols)] :
        g \in {<<r.key[1], r.key[2]>> : r \in t.rows}}

\* t.sum(), named ("Grand Total", "", "")
grand_total(t) ==
    [kind |-> "grand", key |-> <<GrandTotalLabel, <<>>, <<>>>>, vals |-> sum_vals(t.rows, t.cols)]

\* lines 147-168 and 212-233
with_totals(pivot) ==
    LET t == add_grand_total(pivot)
    IN Table(t.cols, t.rows \cup state_totals(t) \cup brand_totals(t) \cup {grand_total(t)})

\* the first column pivot_table does not find: the values, then the keys
missing_column(W, columns) ==
    LET wanted == <<values_col>> \o index_cols \o <<columns>>
        absent == {i \in 1..Len(wanted) : wanted[i] \notin W.cols}
    IN IF absent = {} THEN "" ELSE wanted[CHOOSE i \in absent : \A j \in absent : i <= j]

DetailedPivot ==
    /\ pc = "detailed_pivot"
    /\ IF missing_column(Working, "RIS Status") # ""
       THEN /\ Raise("KeyError", {missing_column(Working, "RIS Status")})
            /\ UNCHANGED detailed_pivot_with_totals
       ELSE /\ detailed_pivot_with_totals' =
                  with_totals(pivot_table(Working.rows, index_cols, "RIS Status"))
            /\ pc' = "ris_by_table"
            /\ UNCHANGED errors
    /\ UNCHANGED <<files, Working, FC, PM, canon_map, inventory_pivot_with_totals,
                   inventory_brand_summary, brand_summary, shown>>

\* row.get(col): None when the row has no such column
get(row, col, default) == IF col \in DOMAIN row THEN row[col] ELSE default

\* the fulfillment-center id compared as it is in the file
ris_status_from_ixd_raw(row) ==
    LET rc == get(row, "Inferred_Receive_Centre", NaN)
        fc == str(get(row, "fulfillment-center-id", <<>>))
    IN IF isna(rc) \/ rc \notin DOMAIN LOCAL_MAP THEN "Non RIS"
       ELSE IF fc \in LOCAL_MAP[rc] THEN "RIS" ELSE "Non RIS"

ris_status_from_ixd(row) ==
    LET rc == get(row, "Inferred_Receive_Centre", NaN)
        fc == upper(strip(str(get(row, "fulfillment-center-id", <<>>))))
    IN IF isna(rc) \/ rc \notin DOMAIN LOCAL_MAP THEN "Non RIS"
       ELSE IF fc \in LOCAL_MAP[rc] THEN "RIS" ELSE "Non RIS"

RISByTable ==
    /\ pc = "ris_by_table"
    /\ Working' = Table(Working.cols \cup {"RIS_by_Table"},
                        [i \in 1..Len(Working.rows) |->
                            [c \in DOMAIN Working.rows[i] \cup {"RIS_by_Table"} |->
                                IF c = "RIS_by_Table" THEN ris_status_from_ixd(Working.rows[i])
                                ELSE Working.rows[i][c]]])
    /\ pc' = "inventory_pivot"
    /\ UNCHANGED <<files, FC, PM, canon_map, reports, shown, errors>>

InventoryPivot ==
    /\ pc = "inventory_pivot"
    /\ inventory_pivot_with_totals' =
          with_totals(ensure_columns(pivot_table(Working.rows, index_cols, "RIS_by_Table"),
                                     {"RIS", "Non RIS"}))
    /\ pc' = "inventory_brand_summary"
    /\ UNCHANGED <<files, Working, FC, PM, canon_map, detailed_pivot_with_totals,
                   inventory_brand_summary, brand_summary, shown, errors>>

\* pd.pivot_table(..., index=["Brand"], margins=True, margins_name="Grand Total"):
\* the margins are summed over the data rows whose cells are all present; an
\* empty table gets none.
pivot_table_margins(rows, columns) ==
    LET t == pivot_table(rows, <<"Brand">>, columns)
        data == notna_keys(rows, {"Brand"})
        cols == t.cols \cup {"Grand Total"}
        of_brand(b) == SelectSeq(data, LAMBDA r : r["Brand"] = b)
        of_label(l) == SelectSeq(data, LAMBDA r : r[columns] = l)
    IN IF t.rows = {} THEN t
       ELSE Table(cols,
              {[r EXCEPT !.vals = [c \in cols |->
                                     IF c = "Grand Total" THEN SumSeq(of_brand(r.key[1]), values_col)
                                     ELSE r.vals[c]]] : r \in t.rows}
              \cup
              {[kind |-> "grand", key |-> <<GrandTotalLabel>>,
                vals |-> [c \in cols |->
                            IF c = "Grand Total" THEN SumSeq(data, values_col)
                            ELSE SumSeq(of_label(c), values_col)]]})

\* float division of two integer columns, kept as a fraction; x/0 is nan
\* for x = 0 and plus or minus infinity otherwise
divide(x, g) ==
    IF g # 0 THEN [kind |-> "num", n |-> x, d |-> g]
    ELSE IF x = 0 THEN [kind |-> "nan", n |-> 0, d |-> 0]
    ELSE IF x > 0 THEN [kind |-> "inf", n |-> 1, d |-> 0]
    ELSE [kind |-> "inf", n |-> 0 - 1, d |-> 0]

\* the percentages left as the division produced them
fillna_omitted(v) == v

\* fillna(0) replaces nan, and nothing else
fillna(v) == IF v.kind = "nan" THEN [kind |-> "num", n |-> 0, d |-> 1] ELSE v

\* lines 261-264 and 277-279
add_percentages(t) ==
    Table(t.cols \cup {"Non RIS%", "RIS%"},
          {[r EXCEPT !.vals = [c \in t.cols \cup {"Non RIS%", "RIS%"} |->
                CASE c = "Non RIS%" -> fillna(divide(r.vals["Non RIS"], r.vals["Grand Total"]))
                  [] c = "RIS%" -> fillna(divide(r.vals["RIS"], r.vals["Grand Total"]))
                  [] OTHER -> r.vals[c]]] : r \in t.rows})

InventoryBrandSummary ==
    /\ pc = "inventory_brand_summary"
    /\ LET t == ensure_columns(pivot_table_margins(Working.rows, "RIS_by_Table"), {"RIS", "Non RIS"})
           g == IF "Grand Total" \in t.cols THEN t
                ELSE Table(t.cols \cup {"Grand Total"}, add_grand_total(t).rows)
       IN inventory_brand_summary' = add_percentages(g)
    /\ pc' = "brand_summary"
    /\ UNCHANGED <<files, Working, FC, PM, canon_map, detailed_pivot_with_totals,
                   inventory_pivot_with_totals, brand_summary, shown, errors>>

BrandSummary ==
    /\ pc = "brand_summary"
    /\ LET t == pivot_table_margins(Working.rows, "RIS Status") IN
       IF "Non RIS" \notin t.cols
       THEN Raise("KeyError", {"Non RIS"}) /\ UNCHANGED brand_summary
       ELSE IF "RIS" \notin t.cols
       THEN Raise("KeyError", {"RIS"}) /\ UNCHANGED brand_summary
       ELSE /\ brand_summary' = add_percentages(t)
            /\ pc' = "tab1"
            /\ UNCHANGED errors
    /\ UNCHANGED <<files, Working, FC, PM, canon_map, detailed_pivot_with_totals,
                   inventory_pivot_with_totals, inventory_brand_summary, shown>>

\* lines 281-339: the state-based tab
DisplayTab1 ==
    /\ pc = "tab1"
    /\ shown' = shown \cup {"brand_summary", "detailed_pivot_with_totals"}
    /\ pc' = "tab2"
    /\ UNCHANGED <<files, Working, FC, PM, canon_map, reports, errors>>

\* lines 341-383: the inventory placement tab
DisplayTab2 ==
    /\ pc = "tab2"
    /\ shown' = shown \cup {"inventory_brand_summary", "inventory_pivot_with_totals"}
    /\ pc' = "downloads"
    /\ UNCHANGED <<files, Working, FC, PM, canon_map, reports, errors>>

\* lines 385-488: the four download buttons
Downloads ==
    /\ pc = "downloads"
    /\ shown' = shown \cup {"processed_data.xlsx", "state_based_ris_analysis.xlsx",
                            "inventory_placement_analysis.xlsx",
                            "complete_ris_analysis_report.xlsx"}
    /\ pc' = "done"
    /\ UNCHANGED <<files, Working, FC, PM, canon_map, reports, errors>>

\* any later interaction runs the script again from the top: the page is
\* cleared and the files are loaded anew
Rerun ==
    /\ pc \in {"done", "stopped", "error"}
    /\ pc' = "ready"
    /\ Working' = original_file
    /\ FC' = fc_file
    /\ PM' = pm_file
    /\ canon_map' = <<>>
    /\ detailed_pivot_with_totals' = NoTable
    /\ inventory_pivot_with_totals' = NoTable
    /\ inventory_brand_summary' = NoTable
    /\ brand_summary' = NoTable
    /\ shown' = {}
    /\ errors' = <<>>
    /\ UNCHANGED files

Next == Process \/ Validate \/ MergeFC \/ NormalizeShipState \/ RISStatus \/ MergePM
        \/ DetailedPivot \/ RISByTable \/ InventoryPivot \/ InventoryBrandSummary
        \/ BrandSummary \/ DisplayTab1 \/ DisplayTab2 \/ Downloads \/ Rerun

Spec == Init /\ [][Next]_vars

(***************************************************************************)
(* Properties                                                              *)
(***************************************************************************)
val(r, c) == IF c \in DOMAIN r.vals THEN r.vals[c] ELSE 0

leaves(t) == {r \in t.rows : r.kind = "leaf"}

TotalsConsistent(t) ==
    \A r \in t.rows :
        /\ r.vals["Grand Total"] = val(r, "RIS") + val(r, "Non RIS")
        /\ r.kind = "state" =>
              \A c \in t.cols :
                  r.vals[c] = SumRows({l \in leaves(t) : /\ l.key[1] = r.key[1]
                                                         /\ l.key[2] \o Total = r.key[2]}, c)
        /\ r.kind = "brand" =>
              r.vals["Grand Total"] =
                  SumRows({l \in leaves(t) : l.key[1] = r.key[1]}, "Grand Total")
        /\ r.kind = "grand" =>
              r.vals["Grand Total"] =
                  SumRows({b \in t.rows : b.kind = "brand"}, "Grand Total")

\* C1: in both detailed report tables every row's Grand Total is its RIS plus
\* its Non RIS, every state subtotal is the sum of the leaf rows of its
\* (brand, fulfillment state), every brand subtotal's Grand Total is the sum
\* over the brand's leaf rows, and the Grand Total row's is the sum over the
\* brand subtotals.
C1_SubtotalsConsistent ==
    /\ detailed_pivot_with_totals # NoTable => TotalsConsistent(detailed_pivot_with_totals)
    /\ inventory_pivot_with_totals # NoTable => TotalsConsistent(inventory_pivot_with_totals)

\* a finished run whose detailed tables have a brand with two leaf rows in
\* two fulfillment states and a non-zero total
C1_Witness ==
    /\ pc = "done"
    /\ \E b \in inventory_pivot_with_totals.rows :
          /\ b.kind = "brand"
          /\ b.vals["Grand Total"] > 0
          /\ Cardinality({l \in leaves(inventory_pivot_with_totals) : l.key[1] = b.key[1]}) >= 2
    /\ \E b \in detailed_pivot_with_totals.rows :
          /\ b.kind = "brand"
          /\ b.vals["Grand Total"] > 0
          /\ Cardinality({l.key[2] : l \in {x \in leaves(detailed_pivot_with_totals) :
                                                x.key[1] = b.key[1]}}) >= 2

Computed == /\ detailed_pivot_with_totals # NoTable
            /\ inventory_pivot_with_totals # NoTable
            /\ inventory_brand_summary # NoTable
            /\ brand_summary # NoTable

\* C2: a run shows outputs only after normalize, join, classify and
\* aggregate have all completed; a run that stops on a validation error or
\* an exception reports exactly one error and shows no table and no download.
C2_NoOutputOnFailure ==
    /\ pc \in {"stopped", "error"} => shown = {} /\ Len(errors) = 1
    /\ errors # <<>> => shown = {}
    /\ shown # {} => /\ Computed
                     /\ pc \in {"tab2", "downloads", "done"}
                     /\ {"RIS Status", "RIS_by_Table", "fulfillment_state"} \subseteq Working.cols

\* a run that fails in the last aggregation step, with three tables built
C2_Witness ==
    /\ pc = "error"
    /\ detailed_pivot_with_totals # NoTable
    /\ inventory_brand_summary # NoTable
    /\ shown = {}

rows_of(W) == {W.rows[i] : i \in 1..Len(W.rows)}

\* the line of the uploaded order file a row of Working comes from
input_line(row) == original_file.rows[row["order-id"]]

MissingOrderCols ==
    {"fulfillment-center-id", "ship-state", "quantity-shipped"} \ original_file.cols

MissingFcCols == {"FC", "State", "Cluster"} \ fc_file.cols

\* C3: when a required column is missing from the order file or from the FC
\* file, the run stops on a validation error naming every missing column
\* before any join or classification step has run.
C3_ValidationBeforeJoin ==
    MissingOrderCols \cup MissingFcCols # {} =>
        /\ pc \in {"ready", "validate", "stopped"}
        /\ Working = original_file
        /\ pc = "stopped" =>
              /\ Len(errors) = 1
              /\ errors[1].kind = "validation"
              /\ errors[1].names = MissingOrderCols \cup MissingFcCols

\* C4: an order line whose fulfillment_state is missing after the FC join is
\* labelled Non RIS by the state-match rule, whatever its original ship
\* state is, a missing one included.
C4_NullStateIsNonRIS ==
    "RIS Status" \in Working.cols =>
        \A r \in rows_of(Working) :
            isna(r["fulfillment_state"]) => r["RIS Status"] = "Non RIS"

\* the FC file lists DED3 once, in Delhi
Ded3InDelhi ==
    /\ FcFile(FcCols, FcDefault).cols = fc_file.cols
    /\ \A i \in 1..Len(fc_file.rows) :
          normalize(fc_file.rows[i]["FC"]) = DED3 =>
              fc_file.rows[i]["FC"] = DED3 /\ fc_file.rows[i]["State"] = Delhi
    /\ \E i \in 1..Len(fc_file.rows) : fc_file.rows[i]["FC"] = DED3

Ded3Rows ==
    {r \in rows_of(Working) : input_line(r)["fulfillment-center-id"] = ded3}

\* C5 as stated: the line with fulfillment-center-id "ded3" gets the state
\* Delhi, is RIS when its original ship state is " delhi " and Non RIS when
\* it is "Haryana".
C5_Original ==
    (Ded3InDelhi /\ "RIS Status" \in Working.cols) =>
        \A r \in Ded3Rows :
            /\ r["fulfillment_state"] = Delhi
            /\ r["ship-state_original"] = delhi_padded => r["RIS Status"] = "RIS"
            /\ r["ship-state_original"] = Haryana => r["RIS Status"] = "Non RIS"

\* C5 (amended): the line with fulfillment-center-id "ded3" gets the state
\* Delhi; with the original ship state " delhi " it is Non RIS, because the
\* comparison removes spaces but keeps the letter case; " Del hi " is RIS
\* and "Haryana" is Non RIS.
C5_Ded3Scenario ==
    (Ded3InDelhi /\ "RIS Status" \in Working.cols) =>
        \A r \in Ded3Rows :
            /\ r["fulfillment_state"] = Delhi
            /\ r["ship-state_original"] = delhi_padded => r["RIS Status"] = "Non RIS"
            /\ r["ship-state_original"] = Delhi_spaced => r["RIS Status"] = "RIS"
            /\ r["ship-state_original"] = Haryana => r["RIS Status"] = "Non RIS"

\* a classified "ded3" line whose original ship state is " delhi "
C5_Witness ==
    /\ Ded3InDelhi
    /\ "RIS Status" \in Working.cols
    /\ \E r \in Ded3Rows : /\ r["ship-state_original"] = delhi_padded
                           /\ r["fulfillment_state"] = Delhi
                           /\ r["RIS Status"] = "Non RIS"

\* equal up to letter case and surrounding whitespace
SameCode(a, b) == lower(strip(a)) = lower(strip(b))

\* C6: RIS_by_Table is Non RIS when Inferred_Receive_Centre is missing or is
\* not a key of LOCAL_MAP, and otherwise RIS exactly when the
\* fulfillment-center id equals a member of LOCAL_MAP[rc] up to letter case
\* and surrounding whitespace; DED3/DEL4 is RIS, DED3/BOM5 is Non RIS and
\* XYZ9 is Non RIS for every id.
C6_LocalMapping ==
    "RIS_by_Table" \in Working.cols =>
        \A r \in rows_of(Working) :
            LET has_rc == "Inferred_Receive_Centre" \in original_file.cols
                rc == IF has_rc THEN input_line(r)["Inferred_Receive_Centre"] ELSE NaN
                fc == input_line(r)["fulfillment-center-id"]
                local == /\ has_rc
                         /\ ~isna(rc)
                         /\ rc \in {DED3, DED5, ISK3, BLR4}
                         /\ ~isna(fc)
                         /\ \E m \in LOCAL_MAP[rc] : SameCode(fc, m)
            IN /\ r["RIS_by_Table"] = IF local THEN "RIS" ELSE "Non RIS"
               /\ (rc = DED3 /\ fc = DEL4) => r["RIS_by_Table"] = "RIS"
               /\ (rc = DED3 /\ fc = BOM5) => r["RIS_by_Table"] = "Non RIS"
               /\ rc = XYZ9 => r["RIS_by_Table"] = "Non RIS"

\* a labelled line whose id " del4<nbsp>" is local to its receive centre DED3
C6_Witness ==
    /\ "RIS_by_Table" \in Working.cols
    /\ \E r \in rows_of(Working) :
          /\ r["fulfillment-center-id"] = del4_padded
          /\ r["Inferred_Receive_Centre"] = DED3
          /\ r["RIS_by_Table"] = "RIS"

InUnit(v) ==
    /\ v.kind = "num"
    /\ \/ v.d > 0 /\ 0 <= v.n /\ v.n <= v.d
       \/ v.d < 0 /\ v.d <= v.n /\ v.n <= 0

IsZero(v) == v.kind = "num" /\ v.n = 0

PercentagesGuarded(t) ==
    \A r \in t.rows :
        /\ InUnit(r.vals["Non RIS%"])
        /\ InUnit(r.vals["RIS%"])
        /\ r.vals["Grand Total"] = 0 => IsZero(r.vals["Non RIS%"]) /\ IsZero(r.vals["RIS%"])

NonNegativeQuantities ==
    /\ values_col \in original_file.cols
    /\ \A i \in 1..Len(original_file.rows) : original_file.rows[i][values_col] >= 0

C8_NoSkuNoFailure ==
    ("sku" \notin original_file.cols /\ "Brand" \notin original_file.cols) =>
        ~(pc = "error" /\ errors[1].names = {"Brand"})

grand_row(t) == CHOOSE r \in t.rows : r.kind = "grand"

has_null_brand(t) == \E r \in t.rows : r.kind = "leaf" /\ isna(r.key[1])

\* C9: the lines without a brand are in all four tables: their quantity is
\* counted in a group whose brand is missing and in every grand total.
C9_UnbrandedCounted ==
    pc = "done" =>
        LET grouped == notna_keys(Working.rows, {"fulfillment_state", "ship-state"})
            unbranded(rows) == \E i \in 1..Len(rows) : isna(rows[i]["Brand"])
        IN /\ grand_row(brand_summary).vals["Grand Total"] = SumSeq(Working.rows, values_col)
           /\ grand_row(inventory_brand_summary).vals["Grand Total"] = SumSeq(Working.rows, values_col)
           /\ grand_row(detailed_pivot_with_totals).vals["Grand Total"] = SumSeq(grouped, values_col)
           /\ grand_row(inventory_pivot_with_totals).vals["Grand Total"] = SumSeq(grouped, values_col)
           /\ unbranded(Working.rows) => has_null_brand(brand_summary)
                                          /\ has_null_brand(inventory_brand_summary)
           /\ unbranded(grouped) => has_null_brand(detailed_pivot_with_totals)
                                     /\ has_null_brand(inventory_pivot_with_totals)

\* the correction step has run
Corrected ==
    /\ pc \notin {"ready", "validate", "merge_fc", "ship_state", "stopped"}
    /\ {"ship-state_original", "ship-state"} \subseteq Working.cols

original_on_input(r) ==
    IF "ship-state_original" \in original_file.cols
    THEN input_line(r)["ship-state_original"]
    ELSE input_line(r)["ship-state"]

\* the canonical spellings the FC file offers for a raw state
canonical_for(raw) ==
    {strip(fc_file.rows[i]["State"]) : i \in {j \in 1..Len(fc_file.rows) :
        /\ ~isna(fc_file.rows[j]["State"])
        /\ normalize_text(raw) # <<>>
        /\ normalize_text(fc_file.rows[j]["State"]) = normalize_text(raw)}}

OriginalKept ==
    Corrected =>
        \A r \in rows_of(Working) :
            /\ r["ship-state_original"] = original_on_input(r)
            /\ r["ship-state"] = safe_correct(r["ship-state_original"], canon_map)
            /\ IF canonical_for(r["ship-state_original"]) = {}
               THEN r["ship-state"] = r["ship-state_original"]
               ELSE r["ship-state"] \in canonical_for(r["ship-state_original"])

OnlyShipStateChanged ==
    (pc = "ship_state" /\ pc' = "ris_status") =>
        /\ Len(Working'.rows) = Len(Working.rows)
        /\ Working'.cols = Working.cols \cup {"ship-state_original", "ship-state"}
        /\ \A i \in 1..Len(Working.rows) : \A c \in Working.cols \ {"ship-state"} :
              Working'.rows[i][c] = Working.rows[i][c]

NeverOverwritten ==
    ("ship-state_original" \in Working.cols /\ pc' # "ready") =>
        \A n \in rows_of(Working') : \E r \in rows_of(Working) :
            /\ r["order-id"] = n["order-id"]
            /\ r["ship-state_original"] = n["ship-state_original"]

\* C10: after a run every line's ship-state_original is the ship-state it
\* had on input (or the input's own ship-state_original), ship-state is
\* safe_correct of it under the canonical map, the correction step changes
\* no other column, and no later step overwrites the original.
C10_OriginalPreserved ==
    [] OriginalKept /\ [][OnlyShipStateChanged /\ NeverOverwritten]_vars

\* a finished run in which the correction changed a line's ship-state
C10_Witness ==
    /\ pc = "done"
    /\ \E r \in rows_of(Working) :
          /\ r["ship-state_original"] = delhi_padded
          /\ r["ship-state"] = Delhi

\* s without its leading and trailing whitespace, by position
trimmed(s) ==
    LET inner == {i \in 1..Len(s) : ~isspace(s[i])}
        first == CHOOSE i \in inner : \A j \in inner : i <= j
        last == CHOOSE i \in inner : \A j \in inner : j <= i
    IN IF inner = {} THEN <<>> ELSE SubSeq(s, first, last)

same_letter(c, d) == c = d \/ upperChar(c) = d \/ c = upperChar(d)

same_space(c, d) == c \in {" ", NBSP} /\ d \in {" ", NBSP}

\* a and b differ only by letter case and leading or trailing whitespace
DiffersByCaseAndPadding(a, b) ==
    LET x == trimmed(a)
        y == trimmed(b)
    IN /\ Len(x) = Len(y)
       /\ \A i \in 1..Len(x) : same_letter(x[i], y[i])

\* ... or also by a non-breaking space standing for a regular one
DiffersByCasePaddingNbsp(a, b) ==
    LET x == trimmed(a)
        y == trimmed(b)
    IN /\ Len(x) = Len(y)
       /\ \A i \in 1..Len(x) : same_letter(x[i], y[i]) \/ same_space(x[i], y[i])

\* line i of the order file is joined to row j of the FC file
JoinedTo(i, j) ==
    \E r \in rows_of(Working) :
        /\ r["order-id"] = i
        /\ r["fulfillment_state"] = fc_file.rows[j]["State"]
        /\ r["cluster"] = fc_file.rows[j]["Cluster"]

KeysJoin(differ(_, _)) ==
    "fulfillment_state" \in Working.cols =>
        \A i \in 1..Len(original_file.rows) : \A j \in 1..Len(fc_file.rows) :
            LET a == original_file.rows[i]["fulfillment-center-id"]
                b == fc_file.rows[j]["FC"]
            IN (~isna(a) /\ ~isna(b) /\ differ(a, b)) =>
                   normalize(a) = normalize(b) /\ JoinedTo(i, j)

\* C11 as stated: a fulfillment-center id and an FC code that differ only by
\* letter case, leading or trailing whitespace, or non-breaking versus
\* regular spaces have the same join key, and the line joins to that row.
C11_Original == KeysJoin(DiffersByCasePaddingNbsp)

\* C11 (amended): a fulfillment-center id and an FC code that differ only by
\* letter case or by leading or trailing whitespace (regular or non-breaking)
\* have the same join key, and the line joins to that row; a non-breaking
\* space inside the text is kept and is not equal to a regular space.
C11_JoinKeyNormalize ==
    /\ KeysJoin(DiffersByCaseAndPadding)
    /\ normalize(<<"D","E",NBSP,"L","4">>) # normalize(DE_L4)

\* a joined line whose id " De L4<nbsp>" is written unlike the FC code "DE L4"
C11_Witness ==
    /\ "fulfillment_state" \in Working.cols
    /\ fc_file.rows[1]["FC"] = DE_L4
    /\ original_file.rows[1]["fulfillment-center-id"] = <<" ","D","e"," ","L","4",NBSP>>
    /\ JoinedTo(1, 1)

\* the raw texts the correction is tried on: the sample spellings, the cells
\* of the two ship-state columns, and the canonical names of the map
Raws ==
    RawStates \cup StateSpellings \cup {Delhi, delhi_padded, Delhi_spaced, Haryana}
    \cup {canon_map[k] : k \in DOMAIN canon_map}
    \cup UNION {{r[c] : c \in {"ship-state", "ship-state_original"} \cap Working.cols} :
                    r \in rows_of(Working)}

\* C12: safe_correct is idempotent under the canonical map built from the FC
\* file, and returns the raw text unchanged when its normalized form is not
\* a key of the map.
C12_SafeCorrectIdempotent ==
    \A x \in Raws :
        /\ safe_correct(safe_correct(x, canon_map), canon_map) = safe_correct(x, canon_map)
        /\ normalize_text(x) \notin DOMAIN canon_map => safe_correct(x, canon_map) = x
        /\ normalize_text(x) \in DOMAIN canon_map =>
              normalize_text(safe_correct(x, canon_map)) = normalize_text(x)

\* a map in which " GOA<nbsp>" replaced "Goa" for the key goa, a line whose
\* "g-o a" was corrected to "GOA", and a raw text that is no key of the map
C12_Witness ==
    /\ DOMAIN canon_map = {<<"g","o","a">>}
    /\ canon_map[<<"g","o","a">>] = <<"G","O","A">>
    /\ \E r \in rows_of(Working) :
          /\ "ship-state_original" \in Working.cols
          /\ r["ship-state_original"] = g_o_a
          /\ r["ship-state"] = <<"G","O","A">>
          /\ safe_correct(r["ship-state"], canon_map) = r["ship-state"]
    /\ safe_correct(<<"G","o","."," ","x">>, canon_map) = <<"G","o","."," ","x">>

same_grand_total(detailed, summary) ==
    \A c \in {"Non RIS", "RIS", "Grand Total"} :
        val(grand_row(detailed), c) = val(grand_row(summary), c)

\* C13: on a successful run the Grand Total row of each detailed table has
\* the same Non RIS, RIS and Grand Total values as the Grand Total row of the
\* brand summary of the same scheme: both count the same order lines, those
\* with a missing fulfillment_state or ship-state included.
C13_GrandTotalsAgree ==
    pc = "done" =>
        /\ same_grand_total(detailed_pivot_with_totals, brand_summary)
        /\ same_grand_total(inventory_pivot_with_totals, inventory_brand_summary)

====
